---- MODULE Spec2Model ----
(***************************************************************************)
(* PostGISRasterRasterBand (postgisrasterrasterband.cpp): the             *)
(* constructor, the windowed read IRasterIO, the block adapter IReadBlock,  *)
(* the pixel type codec TranslateDataType and the overview accessors, as a  *)
(* state machine.                                                           *)
(*                                                                          *)
(* A call of IRasterIO is a frame on `stack`; the overview delegation       *)
(* pushes a second frame for the overview band on top of the level-0        *)
(* frame.  Every resource the call acquires is a field of its frame with    *)
(* the values "none", "live", "freed" (and "double" after a second          *)
(* release).  The store (libpq) and the host composite (VRT) are the        *)
(* environment: their results are drawn from bounded sets.                  *)
(***************************************************************************)
EXTENDS Integers, Sequences, FiniteSets, TLC

VARIABLES
    poDS,        \* the dataset: nSrid, pszWhere, table identity, transform, size,
                 \* and the overview catalog its connection leads to
    band,        \* the level-0 band after construction
    stack,       \* frames of the calls in progress (the constructor, IRasterIO),
                 \* innermost last
    pData,       \* the caller's buffer
    pData0,      \* the caller's buffer as it was when the outermost call began
    queries,     \* the queries the connection received during the outermost call
    nReads,      \* windowed reads executed against a composite during that call
    lastErr,     \* class of the last CPLError raised with CE_Failure
    codec        \* the last classification made by TranslateDataType

vars == <<poDS, band, stack, pData, pData0, queries, nReads, lastErr, codec>>

----------------------------------------------------------------------------
(* Bounds of the model *)

MaxTuples == 2      \* rows a tile enumeration returns at most
MaxOff    == 1      \* largest window offset the host asks for
MaxSize   == 2      \* largest window and buffer extent the host asks for
MaxBlock  == 2      \* largest natural block extent
MaxRaster == 4      \* largest raster extent
NCells    == 2      \* cells of the caller's buffer
MaxNest   == 3      \* constructor activations nested at most
MaxRows   == 2      \* rows the overview catalog returns at most
MaxWorld  == 2      \* largest distance of a tile's corner from the dataset's

----------------------------------------------------------------------------
(* Pixel type codec *)

Min(a, b) == IF a < b THEN a ELSE b
Max(a, b) == IF a < b THEN b ELSE a

NUL == "\\0"

\* toupper() on the characters that occur in the model
ToUpper(c) ==
    CASE c = "b" -> "B"
      [] c = "u" -> "U"
      [] c = "i" -> "I"
      [] c = "s" -> "S"
      [] c = "f" -> "F"
      [] c = "x" -> "X"
      [] OTHER   -> c

\* the i-th character of a C string (1-based), NUL at and past its end
CharAt(s, i) == IF i <= Len(s) THEN s[i] ELSE NUL

\* EQUALN(a, b, n): strncasecmp(a, b, n) == 0
EQUALN(a, b, n) ==
    \A i \in 1..n :
        \/ ToUpper(CharAt(a, i)) = ToUpper(CharAt(b, i))
        \/ \E j \in 1..(i - 1) : CharAt(a, j) = NUL /\ CharAt(b, j) = NUL

Tag1BB   == <<"1", "B", "B">>
Tag2BUI  == <<"2", "B", "U", "I">>
Tag4BUI  == <<"4", "B", "U", "I">>
Tag8BUI  == <<"8", "B", "U", "I">>
Tag8BSI  == <<"8", "B", "S", "I">>
Tag16BSI == <<"1", "6", "B", "S", "I">>
Tag16BUI == <<"1", "6", "B", "U", "I">>
Tag32BSI == <<"3", "2", "B", "S", "I">>
Tag32BUI == <<"3", "2", "B", "U", "I">>
Tag32BF  == <<"3", "2", "B", "F">>
Tag64BF  == <<"6", "4", "B", "F">>

TranslateDataType(pszDataType) ==
    IF \/ EQUALN(pszDataType, Tag1BB, 3)
       \/ EQUALN(pszDataType, Tag2BUI, 4)
       \/ EQUALN(pszDataType, Tag4BUI, 4)
       \/ EQUALN(pszDataType, Tag8BUI, 4)
       \/ EQUALN(pszDataType, Tag8BSI, 4)
    THEN "GDT_Byte"
    ELSE IF EQUALN(pszDataType, Tag16BSI, 5) THEN "GDT_Int16"
    ELSE IF EQUALN(pszDataType, Tag16BUI, 5) THEN "GDT_UInt16"
    ELSE IF EQUALN(pszDataType, Tag32BSI, 5) THEN "GDT_Int32"
    ELSE IF EQUALN(pszDataType, Tag32BUI, 5) THEN "GDT_UInt32"
    ELSE IF EQUALN(pszDataType, Tag32BF, 4) THEN "GDT_Float32"
    ELSE IF EQUALN(pszDataType, Tag64BF, 4) THEN "GDT_Float64"
    ELSE "GDT_Unknown"

\* GDALGetDataTypeSize: bits per pixel of a canonical type
GDALGetDataTypeSize(t) ==
    CASE t = "GDT_Byte"    -> 8
      [] t = "GDT_Int16"   -> 16
      [] t = "GDT_UInt16"  -> 16
      [] t = "GDT_Int32"   -> 32
      [] t = "GDT_UInt32"  -> 32
      [] t = "GDT_Float32" -> 32
      [] t = "GDT_Float64" -> 64
      [] OTHER             -> 0

----------------------------------------------------------------------------
(* Dataset and band construction *)

\* indices into the affine transform (0-based in the code)
GEOTRSFRM_TOPLEFT_X       == 0
GEOTRSFRM_WE_RES          == 1
GEOTRSFRM_ROTATION_PARAM1 == 2
GEOTRSFRM_TOPLEFT_Y       == 3
GEOTRSFRM_ROTATION_PARAM2 == 4
GEOTRSFRM_NS_RES          == 5

\* adfTransform[k] of the code
At(adfTransform, k) == adfTransform[k + 1]

\* the block extent used when the dataset has no regular blocking
DEFAULT_BLOCK_X_SIZE == MaxBlock
DEFAULT_BLOCK_Y_SIZE == MaxBlock

\* a band object: the fields the constructor sets (papoOverviews = NULL is
\* the empty sequence)
NewBand(nBand, hDataType, nFactor, bsx, bsy, w, h, nCount, ovs) ==
    [ nBand           |-> nBand,
      eDataType       |-> hDataType,
      nOverviewFactor |-> nFactor,
      nBlockXSize     |-> bsx,
      nBlockYSize     |-> bsy,
      nRasterXSize    |-> w,
      nRasterYSize    |-> h,
      nOverviewCount  |-> nCount,
      papoOverviews   |-> ovs ]

\* the block extent the constructor chooses
BlockSize(bRegularBlocking, nBlockSize, nRasterSize, nDefault) ==
    IF bRegularBlocking THEN nBlockSize ELSE Min(nRasterSize, nDefault)

\* floor((double) a / b) for a >= 0 and b # 0
FloorDiv(a, b) ==
    IF b > 0 THEN a \div b ELSE 0 - ((a + (0 - b) - 1) \div (0 - b))

\* atoi() on the texts the overview_factor field takes in the model: a text
\* that is not a number parses to 0
Atoi(text) ==
    CASE text = "2"  -> 2
      [] text = "4"  -> 4
      [] text = "0"  -> 0
      [] text = "-2" -> 0 - 2
      [] OTHER       -> 0

\* the constructor on an overview level (nFactor # 0): no overviews inside an
\* overview, raster size floor(base / factor)
OverviewBand(ds, nBand, hDataType, nFactor, bsx, bsy) ==
    NewBand(nBand, hDataType, nFactor,
            BlockSize(ds.bRegularBlocking, bsx, ds.nRasterXSize, DEFAULT_BLOCK_X_SIZE),
            BlockSize(ds.bRegularBlocking, bsy, ds.nRasterYSize, DEFAULT_BLOCK_Y_SIZE),
            FloorDiv(ds.nRasterXSize, nFactor), FloorDiv(ds.nRasterYSize, nFactor),
            0, <<>>)

\* the band the constructor leaves behind on level 0 (nFactor = 0) when every
\* row of the catalog has a factor other than 0: `catalog` is what PQexec
\* returns for the raster_overviews query, `bAlloc` whether VSICalloc succeeds
Constructor(ds, nBand, hDataType, bsx, bsy, catalog, bAlloc) ==
    LET nbx == BlockSize(ds.bRegularBlocking, bsx, ds.nRasterXSize, DEFAULT_BLOCK_X_SIZE)
        nby == BlockSize(ds.bRegularBlocking, bsy, ds.nRasterYSize, DEFAULT_BLOCK_Y_SIZE)
        n   == Len(catalog.rows)
    IN  IF catalog.kind = "tuples" /\ n > 0
        THEN IF ~bAlloc
             THEN NewBand(nBand, hDataType, 0, nbx, nby,
                          ds.nRasterXSize, ds.nRasterYSize, n, <<>>)
             ELSE NewBand(nBand, hDataType, 0, nbx, nby,
                          ds.nRasterXSize, ds.nRasterYSize, n,
                          [i \in 1..n |->
                              OverviewBand(ds, nBand, hDataType,
                                           Atoi(catalog.rows[i].factor), bsx, bsy)])
        ELSE NewBand(nBand, hDataType, 0, nbx, nby,
                     ds.nRasterXSize, ds.nRasterYSize, 0, <<>>)

GetOverviewCount(b) == IF b.nOverviewFactor # 0 THEN 0 ELSE b.nOverviewCount

\* lines 771-774 and 779-782
GetBand(b) == IF b.nOverviewFactor # 0 THEN 0 ELSE b.nBand
GetDataset(b) == IF b.nOverviewFactor # 0 THEN "NULL" ELSE "poDS"

\* lines 808-812, for 0 <= i - 1 < GetOverviewCount()
GetOverview(b, i) == b.papoOverviews[i]

\* the band object a frame's `this` refers to
BandOf(b) == IF b = 0 THEN band ELSE GetOverview(band, b)
This(f) == BandOf(f.this)

GetXSize(b) == b.nRasterXSize
GetYSize(b) == b.nRasterYSize

----------------------------------------------------------------------------
(* IRasterIO: helpers *)

Top == stack[Len(stack)]
SetTop(f) == [stack EXCEPT ![Len(stack)] = f]

\* a release of a resource: free(NULL) and delete NULL do nothing
Release(r) ==
    CASE r = "live"  -> "freed"
      [] r = "freed" -> "double"
      [] OTHER       -> r

\* variant: the write check is missing
WriteRefused_Missing(eRWFlag) == FALSE

\* line 385: the write flag is refused
WriteRefused(eRWFlag) == eRWFlag = "GF_Write"

\* line 399: the request is handed to OverviewRasterIO
OverviewApplies(nXSize, nYSize, nBufXSize, nBufYSize, nCount) ==
    (nBufXSize < nXSize \/ nBufYSize < nYSize) /\ nCount > 0

\* variant: the result of the overview read is ignored
OverviewSatisfied_Ignored(eErr) == FALSE

\* lines 400-403: the overview read satisfied the request
OverviewSatisfied(eErr) == eErr = "CE_None"

\* lines 411-439: adfProjWin as the five vertices of the polygon
ProjWin(adfTransform, nXOff, nYOff, nXSize, nYSize, nBandDataSize) ==
    LET ulx == nXOff
        uly == nYOff
        lrx == nXOff + nXSize * nBandDataSize
        lry == nYOff + nYSize * nBandDataSize
        X(px, py) == At(adfTransform, GEOTRSFRM_TOPLEFT_X)
                       + px * At(adfTransform, GEOTRSFRM_WE_RES)
                       + py * At(adfTransform, GEOTRSFRM_ROTATION_PARAM1)
        Y(px, py) == At(adfTransform, GEOTRSFRM_TOPLEFT_Y)
                       + px * At(adfTransform, GEOTRSFRM_ROTATION_PARAM2)
                       + py * At(adfTransform, GEOTRSFRM_NS_RES)
    IN  << <<X(ulx, uly), Y(ulx, uly)>>,
           <<X(lrx, uly), Y(lrx, uly)>>,
           <<X(lrx, lry), Y(lrx, lry)>>,
           <<X(ulx, lry), Y(ulx, lry)>>,
           <<X(ulx, uly), Y(ulx, uly)>> >>

\* variant: the directions are exchanged
OrderByY_Exchanged(nSrid) == IF nSrid = -1 THEN "desc" ELSE "asc"

\* lines 444-448
OrderByX == "asc"
OrderByY(nSrid) == IF nSrid = -1 THEN "asc" ELSE "desc"

\* lines 454-482: the tile enumeration query of frame f, by its parts
Command(ds, f) ==
    [ by        |-> This(f).nOverviewFactor,
      nBand     |-> This(f).nBand,
      schema    |-> ds.pszSchema,
      table     |-> ds.pszTable,
      column    |-> ds.pszColumn,
      filter    |-> IF ds.pszWhere = "NULL" THEN "" ELSE ds.pszWhere,
      polygon   |-> ProjWin(ds.adfTransform, f.nXOff, f.nYOff, f.nXSize, f.nYSize,
                            GDALGetDataTypeSize(This(f).eDataType) \div 8),
      srid      |-> ds.nSrid,
      orderByY  |-> OrderByY(ds.nSrid),
      orderByX  |-> OrderByX,
      window    |-> <<f.nXOff, f.nYOff, f.nXSize, f.nYSize>> ]

\* variant: only a missing result counts as a failure
QueryFailed_NullOnly(res) == res.kind = "null"

\* line 487: the enumeration failed at the transport level
QueryFailed(res) == res.kind = "null" \/ res.kind # "tuples" \/ Len(res.rows) < 0

\* variant: an empty result is assembled like any other
NullBlock_Missing(res) == FALSE

\* line 504: no tile intersects the window
NullBlock(res) == Len(res.rows) = 0

\* the frame of a call of IRasterIO on band b (0 is the level-0 band, i > 0
\* its i-th overview), before its first statement
Frame(b, eRWFlag, nXOff, nYOff, nXSize, nYSize, nBufXSize, nBufYSize, blk) ==
    [ this          |-> b,
      eRWFlag       |-> eRWFlag,
      nXOff         |-> nXOff,
      nYOff         |-> nYOff,
      nXSize        |-> nXSize,
      nYSize        |-> nYSize,
      nBufXSize     |-> nBufXSize,
      nBufYSize     |-> nBufYSize,
      block         |-> blk,
      pc            |-> "entry",
      ovErr         |-> "none",
      resKind       |-> "none",
      nTuples       |-> 0,
      tiles         |-> <<>>,
      poResult      |-> "none",
      memArray      |-> "none",
      vrtDataset    |-> "none",
      vrtSize       |-> <<0, 0>>,
      iTuplesIndex  |-> 0,
      pbyData       |-> <<>>,
      pszDataType   |-> <<>>,
      oOpenInfo     |-> <<>>,
      memDatasets   |-> <<>>,
      sources       |-> <<>>,
      readIssued    |-> FALSE,
      err           |-> "none" ]

----------------------------------------------------------------------------
(* The constructor, step by step *)

\* the object before its constructor has run
Unconstructed == NewBand(0, "GDT_Unknown", 0, 0, 0, 0, 0, 0, <<>>)

\* an activation of the constructor with overview factor nFactor, before its
\* first statement; `i` counts the overviews created so far (line 151)
CtorFrame(nBand, hDataType, nFactor, bsx, bsy) ==
    [ pc          |-> "ctor",
      nBand       |-> nBand,
      hDataType   |-> hDataType,
      nFactor     |-> nFactor,
      nBlockXSize |-> bsx,
      nBlockYSize |-> bsy,
      i           |-> 0,
      obj         |-> Unconstructed ]

\* lines 131-134: the catalog query, with the activation that issues it
CatalogCommand(ds, depth) ==
    [ from            |-> "raster_overviews",
      r_table_schema  |-> ds.pszSchema,
      r_table_name    |-> ds.pszTable,
      r_raster_column |-> ds.pszColumn,
      depth           |-> depth ]

\* lines 118-149 and 178-186: on level 0 the catalog is queried and the
\* overview array allocated
CheckOverviews ==
    /\ stack # <<>>
    /\ Top.pc = "ctor"
    /\ Top.nFactor = 0
    /\ queries' = Append(queries, CatalogCommand(poDS, Len(stack)))
    /\ LET f       == Top
           catalog == poDS.poConn.raster_overviews
           n       == Len(catalog.rows)
           Obj(nCount) ==
               NewBand(f.nBand, f.hDataType, 0,
                       BlockSize(poDS.bRegularBlocking, f.nBlockXSize,
                                 poDS.nRasterXSize, DEFAULT_BLOCK_X_SIZE),
                       BlockSize(poDS.bRegularBlocking, f.nBlockYSize,
                                 poDS.nRasterYSize, DEFAULT_BLOCK_Y_SIZE),
                       poDS.nRasterXSize, poDS.nRasterYSize, nCount, <<>>)
       IN  IF catalog.kind = "tuples" /\ n > 0
           THEN \E bAlloc \in BOOLEAN :
                  stack' = SetTop([f EXCEPT !.obj = Obj(n),
                                            !.pc = IF bAlloc THEN "ctor_loop"
                                                             ELSE "ctor_end"])
           ELSE stack' = SetTop([f EXCEPT !.obj = Obj(0), !.pc = "ctor_end"])
    /\ UNCHANGED <<poDS, band, pData, pData0, nReads, lastErr, codec>>

\* lines 193-204: on an overview level there is no query
OverviewLevel ==
    /\ stack # <<>>
    /\ Top.pc = "ctor"
    /\ Top.nFactor # 0
    /\ stack' = SetTop([Top EXCEPT
                          !.obj = OverviewBand(poDS, Top.nBand, Top.hDataType,
                                               Top.nFactor, Top.nBlockXSize,
                                               Top.nBlockYSize),
                          !.pc = "ctor_end"])
    /\ UNCHANGED <<poDS, band, pData, pData0, queries, nReads, lastErr, codec>>

\* lines 151-170: the next row of the catalog is given to a new activation of
\* the constructor, with the factor atoi() reads from the row
CreateOverview ==
    /\ stack # <<>>
    /\ Top.pc = "ctor_loop"
    /\ Len(stack) < MaxNest
    /\ LET row == poDS.poConn.raster_overviews.rows[Top.i + 1]
       IN  stack' = Append(stack, CtorFrame(Top.nBand, Top.hDataType,
                                            Atoi(row.factor),
                                            Top.nBlockXSize, Top.nBlockYSize))
    /\ UNCHANGED <<poDS, band, pData, pData0, queries, nReads, lastErr, codec>>

\* lines 168-174 and 208: an activation returns; the object of a nested one
\* becomes the next entry of the caller's overview array, the outermost one
\* is the level-0 band
Constructed ==
    /\ stack # <<>>
    /\ Top.pc = "ctor_end"
    /\ IF Len(stack) = 1
       THEN /\ band' = Top.obj
            /\ stack' = <<>>
            /\ queries' = <<>>
       ELSE LET caller == stack[Len(stack) - 1]
                done   == caller.i + 1 = caller.obj.nOverviewCount
            IN  /\ stack' = Append(SubSeq(stack, 1, Len(stack) - 2),
                                   [caller EXCEPT
                                      !.obj.papoOverviews = Append(@, Top.obj),
                                      !.i = @ + 1,
                                      !.pc = IF done THEN "ctor_end"
                                                     ELSE "ctor_loop"])
                /\ UNCHANGED <<band, queries>>
    /\ UNCHANGED <<poDS, pData, pData0, nReads, lastErr, codec>>

----------------------------------------------------------------------------
(* The environment: what the host asks for and what the store returns *)

Flags == {"GF_Read", "GF_Write"}

\* request windows inside a raster of w x h pixels
Windows(w, h) ==
    { win \in (0..MaxOff) \X (0..MaxOff) \X (1..MaxSize) \X (1..MaxSize) :
        win[1] + win[3] <= w /\ win[2] + win[4] <= h }

BufSizes == (1..MaxSize) \X (1..MaxSize)

Cells == 1..NCells

\* the caller's buffer before a call
Pixel(src, level, tile) == [src |-> src, level |-> level, tile |-> tile]
Original == [c \in Cells |-> Pixel("orig", 0, 0)]

\* what MEMDataset::Open and GetRasterBand(1) do for a tile
TileFails == {"none", "memopen", "band"}

\* the geometry columns of a row (lines 567-574): width, height, scale and
\* upper-left corner of the tile
Geometry(w, h, sx, sy, ulx, uly) ==
    [ nTileWidth       |-> w,
      nTileHeight      |-> h,
      dfTileScaleX     |-> sx,
      dfTileScaleY     |-> sy,
      dfTileUpperLeftX |-> ulx,
      dfTileUpperLeftY |-> uly ]

\* a tile of one pixel at the world origin, north up
UnitTile == Geometry(1, 1, 1, -1, 0, 0)

\* rows of a tile enumeration: the pixel type tag, the outcome of opening the
\* tile in memory, the cell of the caller's buffer the tile lands on, and the
\* geometry of the tile
TilesAt(tags, fails, cells, geoms) ==
    [pixtype : tags, fail : fails, dstCell : cells, geom : geoms]

Tiles(tags, fails, cells) == TilesAt(tags, fails, cells, {UnitTile})

\* results of PQexec: no result, a result whose status is not PGRES_TUPLES_OK,
\* or 0..n rows
Results(tiles, n) ==
    {[kind |-> "null", rows |-> <<>>], [kind |-> "error", rows |-> <<>>]}
      \cup { [kind |-> "tuples", rows |-> r] :
               r \in UNION { [1..k -> tiles] : k \in 0..n } }

\* the allocation that fails during a call, if any: the tile-dataset array
\* (CPLCalloc) or the composite (VRTCreate)
AllocOutcomes == {"ok", "calloc", "vrt"}

----------------------------------------------------------------------------
(* IRasterIO: the call *)

\* lines 385-404: the frame after the write check and the overview test
Enter(f) ==
    IF WriteRefused(f.eRWFlag)
    THEN [f EXCEPT !.pc = "done", !.err = "CE_Failure"]
    ELSE IF OverviewApplies(f.nXSize, f.nYSize, f.nBufXSize, f.nBufYSize,
                            GetOverviewCount(This(f)))
         THEN [f EXCEPT !.pc = "overview"]
         ELSE [f EXCEPT !.pc = "resolve"]

\* the host begins a call on band b with a fresh buffer
Begin(f) ==
    /\ stack = <<>>
    /\ stack' = <<Enter(f)>>
    /\ pData' = Original
    /\ pData0' = Original
    /\ queries' = <<>>
    /\ nReads' = 0
    /\ lastErr' = IF WriteRefused(f.eRWFlag) THEN "CPLE_NotSupported" ELSE "none"
    /\ UNCHANGED <<poDS, band, codec>>

\* the host calls IRasterIO on the level-0 band
IRasterIO(flags, bufs) ==
    \E eRWFlag \in flags, win \in Windows(GetXSize(band), GetYSize(band)), buf \in bufs :
        Begin(Frame(0, eRWFlag, win[1], win[2], win[3], win[4],
                    buf[1], buf[2], <<>>))

\* variant: the last block is read at full extent
ReadSize_Unclamped(nBlockOff, nBlockSize, nRasterSize) == nBlockSize

\* lines 823-831: the extent IReadBlock reads along one axis
ReadSize(nBlockOff, nBlockSize, nRasterSize) ==
    IF (nBlockOff + 1) * nBlockSize > nRasterSize
    THEN nRasterSize - nBlockOff * nBlockSize
    ELSE nBlockSize

\* the blocks of a band along an axis of nRasterSize pixels
BlockOffs(nBlockSize, nRasterSize) ==
    0..(((nRasterSize + nBlockSize - 1) \div nBlockSize) - 1)

\* the bands the host can reach: the level-0 band and its overviews
Bands == 0..Len(band.papoOverviews)

\* lines 817-838: the host reads a natural block of band b
IReadBlock ==
    \E this \in Bands :
      \E nBlockXOff \in BlockOffs(BandOf(this).nBlockXSize, GetXSize(BandOf(this))),
         nBlockYOff \in BlockOffs(BandOf(this).nBlockYSize, GetYSize(BandOf(this))) :
        LET b == BandOf(this)
            nReadXSize == ReadSize(nBlockXOff, b.nBlockXSize, GetXSize(b))
            nReadYSize == ReadSize(nBlockYOff, b.nBlockYSize, GetYSize(b))
        IN  Begin(Frame(this, "GF_Read",
                        nBlockXOff * b.nBlockXSize, nBlockYOff * b.nBlockYSize,
                        nReadXSize, nReadYSize, nReadXSize, nReadYSize,
                        <<nBlockXOff, nBlockYOff>>))

\* line 811 when papoOverviews is NULL and 0 <= i < GetOverviewCount(): the
\* read of papoOverviews[i] is undefined; the process is killed, or goes on
\* with whatever the read produced
NullArrayRead == {"segv", "undefined"}

\* lines 400-401: OverviewRasterIO asks for the overviews of the band with
\* GetOverviewCount() and GetOverview(i); it then finds no suitable overview
\* and fails, or calls IRasterIO on the overview it chose with the window on
\* that level
OverviewRasterIO ==
    /\ stack # <<>>
    /\ Top.pc = "overview"
    /\ IF Len(This(Top).papoOverviews) < GetOverviewCount(This(Top))
       THEN \E o \in NullArrayRead : stack' = SetTop([Top EXCEPT !.pc = o])
       ELSE
       \/ /\ stack' = SetTop([Top EXCEPT !.ovErr = "CE_Failure", !.pc = "resolve"])
       \/ \E i \in 1..GetOverviewCount(This(Top)) :
            LET k == GetOverview(This(Top), i).nOverviewFactor
            IN  stack' = Append(SetTop([Top EXCEPT !.pc = "ovwait"]),
                            Enter(Frame(i, Top.eRWFlag,
                                        Top.nXOff \div k, Top.nYOff \div k,
                                        Max(1, Top.nXSize \div k),
                                        Max(1, Top.nYSize \div k),
                                        Top.nBufXSize, Top.nBufYSize, <<>>)))
    /\ UNCHANGED <<poDS, band, pData, pData0, queries, nReads, lastErr, codec>>

\* lines 400-403: the overview read returns to the level-0 call
OverviewReturn ==
    /\ Len(stack) = 2
    /\ Top.pc = "done"
    /\ LET caller == stack[1]
           eErr   == Top.err
       IN  stack' = << IF OverviewSatisfied(eErr)
                       THEN [caller EXCEPT !.ovErr = eErr, !.pc = "done",
                                           !.err = "CE_None"]
                       ELSE [caller EXCEPT !.ovErr = eErr, !.pc = "resolve"] >>
    /\ UNCHANGED <<poDS, band, pData, pData0, queries, nReads, lastErr, codec>>

\* the outermost call returns to the host, which takes its buffer along
Return ==
    /\ Len(stack) = 1
    /\ Top.pc = "done"
    /\ stack' = <<>>
    /\ pData' = Original
    /\ pData0' = Original
    /\ queries' = <<>>
    /\ nReads' = 0
    /\ lastErr' = "none"
    /\ UNCHANGED <<poDS, band, codec>>

----------------------------------------------------------------------------
(* IRasterIO: Resolve, Assemble, Emit, Teardown *)

Blank(n) == [i \in 1..n |-> "none"]

\* lines 406-554: the polygon, the query, PQexec, and the allocation of the
\* tile-dataset array and of the composite
Resolve(results) ==
    /\ stack # <<>>
    /\ Top.pc = "resolve"
    /\ queries' = Append(queries, Command(poDS, Top))
    /\ \E res \in results :
         LET got == IF res.kind = "null" THEN "none" ELSE "live"
             n   == Len(res.rows)                \* PQntuples
             f   == [Top EXCEPT !.resKind = res.kind, !.nTuples = n]
         IN  IF QueryFailed(res)
             THEN /\ stack' = SetTop([f EXCEPT !.poResult = Release(got),
                                               !.pc = "done",
                                               !.err = "CE_Failure"])
                  /\ lastErr' = "CPLE_AppDefined"
             ELSE IF NullBlock(res)
             THEN /\ stack' = SetTop([f EXCEPT !.poResult = Release(got),
                                               !.pc = "done",
                                               !.err = "CE_None"])
                  /\ UNCHANGED lastErr
             ELSE \E alloc \in AllocOutcomes :
                  IF alloc = "calloc"                          \* lines 520-526
                  THEN /\ stack' = SetTop([f EXCEPT !.poResult = Release(got),
                                                    !.pc = "done",
                                                    !.err = "CE_Failure"])
                       /\ lastErr' = "CPLE_AppDefined"
                  ELSE IF alloc = "vrt"                        \* lines 534-542
                  THEN /\ stack' = SetTop([f EXCEPT !.poResult = Release(got),
                                                    !.memArray = Release("live"),
                                                    !.pc = "done",
                                                    !.err = "CE_Failure"])
                       /\ lastErr' = "CPLE_AppDefined"
                  ELSE /\ stack' = SetTop([f EXCEPT !.tiles = res.rows,
                                                    !.poResult = got,
                                                    !.memArray = "live",
                                                    !.vrtDataset = "live",
                                                    !.vrtSize = <<Top.nXSize, Top.nYSize>>,
                                                    !.iTuplesIndex = 0,
                                                    !.pbyData = Blank(n),
                                                    !.pszDataType = Blank(n),
                                                    !.oOpenInfo = Blank(n),
                                                    !.memDatasets = Blank(n),
                                                    !.pc = "assemble"])
                       /\ UNCHANGED lastErr
    /\ UNCHANGED <<poDS, band, pData, pData0, nReads, codec>>

\* (int) of the quotient num / den of two integers, den # 0: truncation
\* towards zero
Trunc(num, den) ==
    LET n == IF den < 0 THEN 0 - num ELSE num
        d == IF den < 0 THEN 0 - den ELSE den
    IN  IF n >= 0 THEN n \div d ELSE 0 - ((0 - n) \div d)

\* (int)(a / b + 0.5)
Round(a, b) == Trunc(2 * a + b, 2 * b)

fabs(x) == IF x < 0 THEN 0 - x ELSE x

\* lines 642-674: the source and destination windows of the simple source
\* for a tile of geometry g
SimpleSource(ds, g) ==
    LET xres == At(ds.adfTransform, GEOTRSFRM_WE_RES)
        yres == At(ds.adfTransform, GEOTRSFRM_NS_RES)
        left == g.dfTileUpperLeftX < ds.xmin
        over == ds.ymax < g.dfTileUpperLeftY
    IN  [ nSrcXOff  |-> IF left THEN Round(ds.xmin - g.dfTileUpperLeftX, g.dfTileScaleX)
                                ELSE 0,
          nDstXOff  |-> IF left THEN 0
                                ELSE Round(g.dfTileUpperLeftX - ds.xmin, xres),
          nSrcYOff  |-> IF over THEN Round(g.dfTileUpperLeftY - ds.ymax,
                                           fabs(g.dfTileScaleY))
                                ELSE 0,
          nDstYOff  |-> IF over THEN 0
                                ELSE Round(ds.ymax - g.dfTileUpperLeftY, fabs(yres)),
          nSrcXSize |-> g.nTileWidth,
          nSrcYSize |-> g.nTileHeight,
          nDstXSize |-> Round(g.nTileWidth * g.dfTileScaleX, xres),
          nDstYSize |-> Round(g.nTileHeight * fabs(g.dfTileScaleY), fabs(yres)) ]

\* lines 561-681: one pass of the loop over the rows, for row i
LoopBody(f, i) ==
    LET tile  == f.tiles[i]
        eTileDataType == TranslateDataType(tile.pixtype)
        \* lines 566-608: the blob, the copied tag and the open info exist
        g == [f EXCEPT !.pbyData[i] = "live",
                       !.pszDataType[i] = "live",
                       !.oOpenInfo[i] = IF tile.fail = "openinfo" THEN "none" ELSE "live",
                       !.iTuplesIndex = i]
    IN  IF tile.fail = "openinfo"
        THEN g                                                  \* line 612
        ELSE IF tile.fail = "memopen"
        THEN [g EXCEPT !.oOpenInfo[i] = Release(@)]             \* lines 617-620
        ELSE IF tile.fail = "band"
        THEN [g EXCEPT !.memDatasets[i] = "live"]               \* line 632
        ELSE [g EXCEPT !.memDatasets[i] = "live",
                       !.sources = Append(@, [tile |-> i, eType |-> eTileDataType,
                                              win |-> SimpleSource(poDS, tile.geom)]),
                       !.oOpenInfo[i] = Release(@),             \* line 676
                       !.pbyData[i] = Release(@),               \* line 678
                       !.pszDataType[i] = Release(@)]           \* line 679

AssembleTile ==
    /\ stack # <<>>
    /\ Top.pc = "assemble"
    /\ Top.iTuplesIndex < Len(Top.tiles)
    /\ stack' = SetTop(LoopBody(Top, Top.iTuplesIndex + 1))
    /\ UNCHANGED <<poDS, band, pData, pData0, queries, nReads, lastErr, codec>>

\* lines 683-686: the loop is over, the result is cleared
FlushCache ==
    /\ stack # <<>>
    /\ Top.pc = "assemble"
    /\ Top.iTuplesIndex = Len(Top.tiles)
    /\ stack' = SetTop([Top EXCEPT !.poResult = Release(@), !.pc = "emit"])
    /\ UNCHANGED <<poDS, band, pData, pData0, queries, nReads, lastErr, codec>>

Garbage == Pixel("garbage", 0, 0)

\* what the composite reads through source s of frame f: the tile's pixels,
\* or anything at all when the blob behind the source is no longer allocated
Pixels(f, s) ==
    { Pixel("tile", This(f).nOverviewFactor, s.tile) }
      \cup (IF f.pbyData[s.tile] = "live" THEN {} ELSE {Garbage})

\* the buffers the first k sources of f can leave behind, later over earlier
RECURSIVE Copied(_, _, _)
Copied(buf, f, k) ==
    IF k = 0 THEN {buf}
    ELSE { [b EXCEPT ![f.tiles[f.sources[k].tile].dstCell] = v] :
             b \in Copied(buf, f, k - 1), v \in Pixels(f, f.sources[k]) }

\* lines 690-692: the windowed read against the composite.  The host rejects
\* a window outside the composite; otherwise the sources are copied in order
\* and a copy may fail, which ends the read: the first k sources have reached
\* the buffer by then, the failing one among them or next after them.
RasterIO ==
    /\ stack # <<>>
    /\ Top.pc = "emit"
    /\ nReads' = nReads + 1
    /\ LET f == Top
           n == Len(f.sources)
           inside == /\ f.nXOff + f.nXSize <= f.vrtSize[1]
                     /\ f.nYOff + f.nYSize <= f.vrtSize[2]
       IN  IF ~inside
           THEN /\ stack' = SetTop([f EXCEPT !.readIssued = TRUE, !.pc = "teardown",
                                             !.err = "CE_Failure"])
                /\ UNCHANGED pData
           ELSE \E k \in 0..n, ok \in BOOLEAN :
                  /\ ok => k = n
                  /\ ~ok => n > 0
                  /\ pData' \in Copied(pData, f, k)
                  /\ stack' = SetTop([f EXCEPT !.readIssued = TRUE, !.pc = "teardown",
                                         !.err = IF ok THEN "CE_None" ELSE "CE_Failure"])
    /\ UNCHANGED <<poDS, band, pData0, queries, lastErr, codec>>

\* lines 696-709: the composite is closed, the tile datasets and their array
\* are released, the status of the read is returned
Teardown ==
    /\ stack # <<>>
    /\ Top.pc = "teardown"
    /\ stack' = SetTop([Top EXCEPT
                          !.vrtDataset = Release(@),
                          !.memDatasets = [i \in 1..Len(Top.tiles) |-> Release(@[i])],
                          !.memArray = Release(@),
                          !.pc = "done"])
    /\ UNCHANGED <<poDS, band, pData, pData0, queries, nReads, lastErr, codec>>

----------------------------------------------------------------------------
(* The codec on its own *)

ToLower(c) ==
    CASE c = "B" -> "b"
      [] c = "U" -> "u"
      [] c = "I" -> "i"
      [] c = "S" -> "s"
      [] c = "F" -> "f"
      [] OTHER   -> c

Lower(s) == [i \in 1..Len(s) |-> ToLower(s[i])]

RecognizedTags ==
    {Tag1BB, Tag2BUI, Tag4BUI, Tag8BUI, Tag8BSI, Tag16BSI, Tag16BUI,
     Tag32BSI, Tag32BUI, Tag32BF, Tag64BF}

\* tags the store may hand over: the recognized ones, and for each of them
\* case variants, extensions, truncations and shifted copies
TagInputs ==
    UNION { { r, Lower(r), [r EXCEPT ![Len(r)] = ToLower(@)],
              r \o <<"X">>, r \o <<"x">>, Lower(r) \o <<"x">>, r \o <<"8">>,
              SubSeq(r, 1, Len(r) - 1), Tail(r), <<"X">> \o r } :
            r \in RecognizedTags }
      \cup { <<>>, <<"B">>, <<"X">> }

Classify ==
    /\ \E t \in TagInputs : codec' = [tag |-> t, type |-> TranslateDataType(t)]
    /\ UNCHANGED <<poDS, band, stack, pData, pData0, queries, nReads, lastErr>>

----------------------------------------------------------------------------
(* Specifications *)

\* the dataset: `origin` is its world-space upper-left (xmin, ymax), `catalog`
\* what its connection returns for the raster_overviews query of lines 131-136
Dataset(nSrid, pszWhere, adfTransform, origin, size, bRegularBlocking, catalog) ==
    [ nSrid            |-> nSrid,
      pszWhere         |-> pszWhere,
      pszSchema        |-> "public",
      pszTable         |-> "tiles",
      pszColumn        |-> "rast",
      adfTransform     |-> adfTransform,
      xmin             |-> origin[1],
      ymax             |-> origin[2],
      nRasterXSize     |-> size[1],
      nRasterYSize     |-> size[2],
      bRegularBlocking |-> bRegularBlocking,
      poConn           |-> [raster_overviews |-> catalog] ]

\* the raster_overviews catalog: no row, or one overview of factor 2
NoOverviews  == [kind |-> "tuples", rows |-> <<>>]
OneOverview  == [kind |-> "tuples",
                 rows |-> <<[factor |-> "2", schema |-> "public",
                             table |-> "o_2_tiles", column |-> "rast"]>>]

\* the catalog rows whose overview_factor field is one of `texts`
CatalogRows(texts) ==
    { [factor |-> t, schema |-> "public", table |-> "o_tiles", column |-> "rast"] :
        t \in texts }

\* what PQexec can return for the catalog query: no result, a result whose
\* status is not PGRES_TUPLES_OK, or 0..n rows
Catalogs(texts, n) ==
    {[kind |-> "null", rows |-> <<>>], [kind |-> "error", rows |-> <<>>]}
      \cup { [kind |-> "tuples", rows |-> r] :
               r \in UNION { [1..k -> CatalogRows(texts)] : k \in 0..n } }

NorthUp == <<0, 1, 0, 0, 0, -1>>
Mirrored == <<0, -1, 0, 0, 0, 1>>
Rotated == <<10, 2, 1, 20, 3, -2>>

\* the state after the construction of a dataset and of its level-0 band
InitFrom(srids, wheres, transforms, origins, sizes, regular, types, blocks, catalogs, allocs) ==
    /\ \E t \in types, bs \in blocks, cat \in catalogs, bAlloc \in allocs :
         /\ poDS \in { Dataset(a, b, c, o, d, e, cat) :
                         a \in srids, b \in wheres, c \in transforms,
                         o \in origins, d \in sizes, e \in regular }
         /\ band = Constructor(poDS, 1, t, bs[1], bs[2], cat, bAlloc)
    /\ stack = <<>>
    /\ pData = Original
    /\ pData0 = Original
    /\ queries = <<>>
    /\ nReads = 0
    /\ lastErr = "none"
    /\ codec = [tag |-> <<>>, type |-> "none"]

\* the same, for a dataset whose upper-left is the world origin and a
\* construction in which the overview array is allocated
InitWith(srids, wheres, transforms, sizes, regular, types, blocks, catalogs) ==
    InitFrom(srids, wheres, transforms, {<<0, 0>>}, sizes, regular, types,
             blocks, catalogs, {TRUE})

ReadSteps(results) ==
    \/ Resolve(results)
    \/ AssembleTile
    \/ FlushCache
    \/ RasterIO
    \/ Teardown
    \/ Return

OverviewSteps ==
    \/ OverviewRasterIO
    \/ OverviewReturn

\* Spec: reads and writes on a band with and without an overview, against a
\* store that returns at most one tile, which may fail to open
Init ==
    InitWith({4326}, {"NULL"}, {NorthUp}, {<<3, 4>>}, {TRUE},
             {"GDT_Byte"}, {<<2, 2>>}, {NoOverviews, OneOverview})

Next ==
    \/ IRasterIO(Flags, BufSizes)
    \/ IReadBlock
    \/ OverviewSteps
    \/ ReadSteps(Results(Tiles({Tag8BUI}, TileFails, {1}), 1))

Spec == Init /\ [][Next]_vars

\* SpecAssemble: reads at full resolution on a band without overviews, against
\* a store that returns up to MaxTuples tiles, each of which may fail to open
\* and lands on any cell of the buffer
InitAssemble ==
    InitWith({4326}, {"NULL"}, {NorthUp}, {<<3, 4>>}, {TRUE},
             {"GDT_Byte"}, {<<2, 2>>}, {NoOverviews})

NextAssemble ==
    \/ IRasterIO({"GF_Read"}, {<<MaxSize, MaxSize>>})
    \/ ReadSteps(Results(Tiles({Tag8BUI}, TileFails, Cells), MaxTuples))

SpecAssemble == InitAssemble /\ [][NextAssemble]_vars

\* SpecQuery: reads into a buffer of one pixel over datasets of every SRID,
\* filter, transform and canonical type, against a store that returns at most
\* one tile, which always opens
InitQuery ==
    InitWith({-1, 0, 4326}, {"NULL", "id > 7"}, {NorthUp, Rotated}, {<<3, 4>>},
             {TRUE}, {"GDT_Byte", "GDT_Int16", "GDT_Float64"}, {<<2, 2>>},
             {OneOverview})

NextQuery ==
    \/ IRasterIO({"GF_Read"}, {<<1, 1>>})
    \/ OverviewSteps
    \/ ReadSteps(Results(Tiles({Tag8BUI, Lower(Tag8BUI)}, {"none"}, {1}), 1))

SpecQuery == InitQuery /\ [][NextQuery]_vars

\* SpecBlock: block reads over rasters and block sizes of every extent
InitBlock ==
    InitWith({4326}, {"NULL"}, {NorthUp}, (2..MaxRaster) \X (2..MaxRaster),
             BOOLEAN, {"GDT_Byte"}, (1..MaxBlock) \X (1..MaxBlock),
             {NoOverviews, OneOverview})

NextBlock ==
    \/ IReadBlock
    \/ ReadSteps(Results(Tiles({Tag8BUI}, {"none"}, {1}), 1))

SpecBlock == InitBlock /\ [][NextBlock]_vars

\* SpecCodec: the classification of every tag of TagInputs
NextCodec == Classify

SpecCodec == Init /\ [][NextCodec]_vars

\* SpecRegistry: reads on a band whose overview registration succeeded, found
\* nothing, or failed (the catalog query, or the allocation of the array)
InitRegistry ==
    InitFrom({4326}, {"NULL"}, {NorthUp}, {<<0, 0>>}, {<<3, 4>>}, {TRUE},
             {"GDT_Byte"}, {<<2, 2>>}, Catalogs({"2"}, 1), BOOLEAN)

NextRegistry ==
    \/ IRasterIO({"GF_Read"}, BufSizes)
    \/ OverviewSteps
    \/ ReadSteps(Results(Tiles({Tag8BUI}, {"none"}, {1}), 1))

SpecRegistry == InitRegistry /\ [][NextRegistry]_vars

\* SpecWindow: reads over tiles of every geometry of the model (upper-left
\* corner on either side of the dataset's, scales of either sign) on datasets
\* whose pixel scales have either sign
TileGeometries ==
    { Geometry(w, 1, sx, sy, ulx, uly) :
        w \in 1..MaxSize, sx \in {-2, -1, 1, 2}, sy \in {-1, 1},
        ulx \in (0 - MaxWorld)..MaxWorld, uly \in (0 - MaxWorld)..MaxWorld }

InitWindow ==
    InitFrom({4326}, {"NULL"}, {NorthUp, Mirrored}, {<<0, 0>>}, {<<3, 4>>},
             {TRUE}, {"GDT_Byte"}, {<<2, 2>>}, {NoOverviews}, {TRUE})

NextWindow ==
    \/ IRasterIO({"GF_Read"}, {<<MaxSize, MaxSize>>})
    \/ ReadSteps(Results(TilesAt({Tag8BUI}, {"none"}, {1}, TileGeometries), 1))

SpecWindow == InitWindow /\ [][NextWindow]_vars

\* SpecConstruct: the construction of a level-0 band over every content of
\* the overview catalog, rows whose factor is 0, negative or not a number
\* included
InitConstruct ==
    /\ poDS \in { Dataset(4326, "NULL", NorthUp, <<0, 0>>, <<3, 4>>, e, cat) :
                    e \in BOOLEAN,
                    cat \in Catalogs({"2", "4", "0", "-2", "x"}, MaxRows) }
    /\ band = Unconstructed
    /\ stack = <<CtorFrame(1, "GDT_Byte", 0, 2, 2)>>
    /\ pData = Original
    /\ pData0 = Original
    /\ queries = <<>>
    /\ nReads = 0
    /\ lastErr = "none"
    /\ codec = [tag |-> <<>>, type |-> "none"]

NextConstruct ==
    \/ CheckOverviews
    \/ OverviewLevel
    \/ CreateOverview
    \/ Constructed

SpecConstruct == InitConstruct /\ [][NextConstruct]_vars

----------------------------------------------------------------------------
(* Properties *)

Frames == { stack[i] : i \in 1..Len(stack) }

\* every resource of frame f that was acquired has been released once
Released(r) == r \in {"none", "freed"}
AllReleased(f) ==
    /\ Released(f.poResult)
    /\ Released(f.memArray)
    /\ Released(f.vrtDataset)
    /\ \A i \in 1..Len(f.tiles) :
         /\ Released(f.pbyData[i])
         /\ Released(f.pszDataType[i])
         /\ Released(f.oOpenInfo[i])
         /\ Released(f.memDatasets[i])

\* C1: a call with the write flag returns a failure of class NotSupported;
\* during it the connection receives no query, no overview is asked and the
\* caller's buffer is not modified.
C1_WriteNotSupported ==
    \A f \in Frames :
        f.eRWFlag = "GF_Write" =>
            /\ f.pc = "done"
            /\ f.err = "CE_Failure"
            /\ lastErr = "CPLE_NotSupported"
            /\ queries = <<>>
            /\ Len(stack) = 1
            /\ f.ovErr = "none"
            /\ nReads = 0
            /\ pData = pData0

\* a write that asks for fewer pixels than the window on a band with overviews
C1_Witness ==
    \E f \in Frames :
        /\ f.eRWFlag = "GF_Write"
        /\ f.pc = "done"
        /\ GetOverviewCount(This(f)) > 0
        /\ f.nBufXSize < f.nXSize
        /\ f.nXOff > 0

C4_FailureUntouched ==
    \A f \in Frames :
        f.resKind \in {"null", "error"} =>
            /\ f.pc = "done"
            /\ f.err = "CE_Failure"
            /\ pData = pData0

\* C4 amended: as claimed, except that the buffer equals its pre-call contents
\* only if no windowed read was executed earlier in the call.
C4_FailureNoWrite ==
    \A f \in Frames :
        f.resKind \in {"null", "error"} =>
            /\ f.pc = "done"
            /\ f.err = "CE_Failure"
            /\ f.vrtDataset = "none"
            /\ ~f.readIssued
            /\ nReads = 0 => pData = pData0

\* a result with a bad status, on the level-0 band after a fallback
C4_Witness ==
    \E f \in Frames :
        /\ f.resKind = "error"
        /\ f.pc = "done"
        /\ This(f).nOverviewFactor = 0
        /\ f.ovErr = "CE_Failure"
        /\ pData = pData0

\* C5: while the windowed read against the composite is executing, the blob
\* behind every installed source is still allocated.
C5_BlobOutlivesRead ==
    \A f \in Frames :
        f.pc = "emit" =>
            \A k \in 1..Len(f.sources) : f.pbyData[f.sources[k].tile] = "live"

\* C6: when IRasterIO returns, every resource the call acquired has been
\* released exactly once.
C6_AllReleasedOnReturn ==
    \A f \in Frames : f.pc = "done" => AllReleased(f)

\* the polygon of window win under transform T: T applied to ul, ur, lr, ll,
\* closed by ul
Apply(T, px, py) ==
    << At(T, 0) + px * At(T, 1) + py * At(T, 2),
       At(T, 3) + px * At(T, 4) + py * At(T, 5) >>
Pentagon(T, win) ==
    << Apply(T, win[1], win[2]),
       Apply(T, win[1] + win[3], win[2]),
       Apply(T, win[1] + win[3], win[2] + win[4]),
       Apply(T, win[1], win[2] + win[4]),
       Apply(T, win[1], win[2]) >>

\* C7: the polygon of every enumeration query is the pentagon of the pixel
\* corners of the window under the dataset's transform, whatever the byte
\* size of the band's type.
C7_PolygonOfPixelCorners ==
    \A i \in 1..Len(queries) :
        queries[i].polygon = Pentagon(poDS.adfTransform, queries[i].window)

\* C8: a block read asks for the window at (block_x * bsx, block_y * bsy)
\* with the extent clamped at the raster edge, so the window lies inside the
\* raster.
C8_BlockClamped ==
    \A f \in Frames :
        f.block # <<>> =>
            LET bsx == This(f).nBlockXSize
                bsy == This(f).nBlockYSize
                w   == This(f).nRasterXSize
                h   == This(f).nRasterYSize
            IN  /\ f.eRWFlag = "GF_Read"
                /\ f.nXOff = f.block[1] * bsx
                /\ f.nYOff = f.block[2] * bsy
                /\ f.nXSize = IF (f.block[1] + 1) * bsx > w
                              THEN w - f.block[1] * bsx ELSE bsx
                /\ f.nYSize = IF (f.block[2] + 1) * bsy > h
                              THEN h - f.block[2] * bsy ELSE bsy
                /\ f.nXSize > 0 /\ f.nYSize > 0
                /\ f.nXOff + f.nXSize <= w
                /\ f.nYOff + f.nYSize <= h

\* a block cut at the right edge and at the bottom edge of the raster
C8_Witness ==
    \E f \in Frames :
        /\ f.block # <<>>
        /\ f.nXSize < This(f).nBlockXSize
        /\ f.nYSize < This(f).nBlockYSize
        /\ f.block[1] > 0
        /\ f.resKind = "tuples"

\* C9: the enumeration orders by upper-left y ascending when the SRID is -1
\* and descending for every other SRID, then by upper-left x ascending, with
\* or without a filter.
C9_OrderDirection ==
    \A i \in 1..Len(queries) :
        /\ poDS.nSrid = -1 => queries[i].orderByY = "asc"
        /\ poDS.nSrid # -1 => queries[i].orderByY = "desc"
        /\ queries[i].orderByX = "asc"

\* a filtered query on a dataset of SRID 0, after one on its overview
C9_Witness ==
    /\ Len(queries) = 2
    /\ poDS.nSrid = 0
    /\ queries[2].filter # ""
    /\ queries[2].orderByY = "desc"

\* the canonical type of exactly the eleven tags
ExactType(tag) ==
    CASE tag \in {Tag1BB, Tag2BUI, Tag4BUI, Tag8BUI, Tag8BSI} -> "GDT_Byte"
      [] tag = Tag16BSI -> "GDT_Int16"
      [] tag = Tag16BUI -> "GDT_UInt16"
      [] tag = Tag32BSI -> "GDT_Int32"
      [] tag = Tag32BUI -> "GDT_UInt32"
      [] tag = Tag32BF  -> "GDT_Float32"
      [] tag = Tag64BF  -> "GDT_Float64"
      [] OTHER          -> "GDT_Unknown"

\* C10: the classification maps exactly the eleven tags to their types and
\* every other tag to the unknown type, and no tile whose tag is not one of
\* the eleven is installed as a source with a known type.
C10_ExactlyElevenTags ==
    /\ codec.type # "none" => codec.type = ExactType(codec.tag)
    /\ \A f \in Frames :
         \A k \in 1..Len(f.sources) :
            f.tiles[f.sources[k].tile].pixtype \notin RecognizedTags
               => f.sources[k].eType = "GDT_Unknown"

\* C11: every enumeration query issued by a read on an overview band names the
\* schema, table and column of the catalog row the overview was created
\* from, not the base table of the dataset.
C11_OverviewOwnTable ==
    \A i \in 1..Len(queries) :
        queries[i].by # 0 =>
            \E r \in 1..Len(poDS.poConn.raster_overviews.rows) :
                LET row == poDS.poConn.raster_overviews.rows[r]
                IN  /\ Atoi(row.factor) = queries[i].by
                    /\ queries[i].schema = row.schema
                    /\ queries[i].table = row.table
                    /\ queries[i].column = row.column

\* what C12 asks of a band that was constructed as an overview sibling
Sibling(b) ==
    /\ b.nOverviewCount = 0
    /\ b.papoOverviews = <<>>
    /\ GetOverviewCount(b) = 0
    /\ GetBand(b) = 0
    /\ GetDataset(b) = "NULL"

\* C12: whatever the overview catalog holds, a band constructed as an
\* overview sibling has no overviews, issues no catalog query during its
\* construction and reports band index 0 and no owning dataset; constructor
\* activations nest at most one level deep (so the construction of the
\* level-0 band comes to an end).
C12_SiblingsHaveNoOverviews ==
    /\ Len(stack) <= 2
    /\ \A q \in 1..Len(queries) : queries[q].depth = 1
    /\ \A d \in 1..Len(stack) :
         /\ (d > 1 /\ stack[d].pc # "ctor") => Sibling(stack[d].obj)
         /\ \A k \in 1..Len(stack[d].obj.papoOverviews) :
               Sibling(stack[d].obj.papoOverviews[k])
    /\ \A k \in 1..Len(band.papoOverviews) : Sibling(band.papoOverviews[k])

\* the overview registration of the level-0 band failed: the catalog query
\* failed, or the catalog had rows and the overview array was not allocated
RegistrationFailed ==
    LET catalog == poDS.poConn.raster_overviews
    IN  \/ catalog.kind # "tuples"
        \/ Len(catalog.rows) > 0 /\ band.papoOverviews = <<>>

\* C13: a level-0 band whose overview registration failed is usable without
\* overviews: GetOverviewCount returns 0, no GetOverview(i) reads an
\* unallocated overview array, and a read with a reduced buffer goes through
\* the level-0 path without an overview read.
C13_UsableWithoutOverviews ==
    RegistrationFailed =>
        /\ GetOverviewCount(band) = 0
        /\ \A f \in Frames :
              /\ f.pc \notin NullArrayRead
              /\ f.pc \notin {"overview", "ovwait"}
              /\ f.ovErr = "none"

\* the rows of frame f whose installation did not fail, in the order of the
\* enumeration
Installable(f) ==
    SelectSeq([i \in 1..Len(f.tiles) |-> i], LAMBDA i : f.tiles[i].fail = "none")

\* the last source of frame f that lands on cell c, 0 if there is none
LastOn(f, c) ==
    LET on == { k \in 1..Len(f.sources) : f.tiles[f.sources[k].tile].dstCell = c }
    IN  IF on = {} THEN 0 ELSE CHOOSE k \in on : \A j \in on : j <= k

\* the sources are the installable rows, in order, and skipping a row has
\* not made the call fail
InstalledInOrder(f) ==
    f.pc \in {"emit", "teardown", "done"} /\ f.resKind = "tuples" /\ f.nTuples > 0
       /\ f.vrtDataset # "none"
    => /\ [k \in 1..Len(f.sources) |-> f.sources[k].tile] = Installable(f)
       /\ f.pc = "emit" => f.err = "none"

\* C14: the sources of a read are exactly the tiles whose installation did
\* not fail, in the order of the enumeration, and a skipped tile does not make
\* the call fail; after a successful read every cell on which installed tiles
\* land holds the pixel of the tile returned last among them.
C14_LaterTileWins ==
    \A f \in Frames :
        /\ InstalledInOrder(f)
        /\ (f.readIssued /\ f.err = "CE_None") =>
              \A c \in Cells :
                 LastOn(f, c) # 0 =>
                    pData[c] = Pixel("tile", This(f).nOverviewFactor,
                                     f.sources[LastOn(f, c)].tile)

\* C15: the source offsets and the destination offsets of every simple
\* source are >= 0, whatever the sign of the tile's and of the dataset's
\* scales.
C15_OffsetsNotNegative ==
    \A f \in Frames :
        \A k \in 1..Len(f.sources) :
            /\ f.sources[k].win.nSrcXOff >= 0
            /\ f.sources[k].win.nSrcYOff >= 0
            /\ f.sources[k].win.nDstXOff >= 0
            /\ f.sources[k].win.nDstYOff >= 0

\* C16: when a read reaches the windowed read against the composite, its
\* window lies inside the composite: x_off + x_size <= width and
\* y_off + y_size <= height of the composite, for block reads of every block.
C16_WindowInsideComposite ==
    \A f \in Frames :
        f.pc = "emit" =>
            /\ f.nXOff + f.nXSize <= f.vrtSize[1]
            /\ f.nYOff + f.nYSize <= f.vrtSize[2]

====
